---------------------------- MODULE Spec2Model ----------------------------
(***************************************************************************)
(* Lazy infinite sets (src/src/infinite_set.rs, src/src/sets.rs): the      *)
(* sample producers, InfiniteUnion and InfiniteIntersection.               *)
(*                                                                         *)
(* A producer (anything that implements InfiniteSet) is a record; its      *)
(* next() is SetNext, which returns the Option it yields together with the *)
(* producer's state after the call, and its contains() is SetContains.     *)
(* An Option is a sequence: None is <<>>, Some(v) is <<v>>.                *)
(***************************************************************************)
EXTENDS Integers, Sequences, FiniteSets, TLC

\* Values a generic operand may hold: 0..MaxVal.
MaxVal == 4
\* next() calls made on each union and on the producer under test.
MaxCalls == 4
\* Draws an intersection makes from its first operand.
MaxSteps == 5
\* Arguments the contains() calls are made with: 0..MaxArg.
MaxArg == 3
\* Bits of the element type kept by the model.  The source's u128 has 128;
\* a cursor that reaches 2^CursorBits overflows as a u128 does at 2^128.
CursorBits == 10
\* next() calls made on a producer when it is run up to its overflow.
MaxAdvances == CursorBits + 2

VARIABLES
    overflow_checks,  \* the build profile: TRUE when arithmetic overflow panics
                      \* (debug), FALSE when it wraps (release)
    A, B,        \* the two operands as constructed, before anything is drawn
    u, uOut,     \* A.union(B) and the values its next() has returned
    v, vOut,     \* B.union(A) and the values its next() has returned
    x, xOut,     \* A.intersect(B) and the values its next() has returned
    xpc,         \* "idle" between calls of x.next(), "loop" inside one
    xSteps,      \* draws x has made from its first operand
    p, pOut,     \* A on its own and the values its next() has returned
    last         \* the last call made: object, operation, draws, result

vars == <<overflow_checks, A, B, u, uOut, v, vOut, x, xOut, xpc, xSteps, p, pOut, last>>

None == <<>>
Some(val) == <<val>>

-----------------------------------------------------------------------------
(* Sample producers, sets.rs *)

InfinitePositiveInts == [kind |-> "ints", current |-> 0, items |-> {}]
InfiniteEvens == [kind |-> "evens", current |-> 0, items |-> {}]
InfiniteOdds == [kind |-> "odds", current |-> 1, items |-> {}]
InfiniteTwoPowers == [kind |-> "twopowers", current |-> 1, items |-> {}]

SampleSets == {InfinitePositiveInts, InfiniteEvens, InfiniteOdds, InfiniteTwoPowers}

\* Any other implementor of the trait whose iterator is strictly increasing:
\* it yields the members of items in increasing order and then None.
\* current is the least value it may still yield.
GenericSets == {[kind |-> "seq", current |-> 0, items |-> S] : S \in SUBSET (0..MaxVal)}

Operands == SampleSets \cup GenericSets

Min(S) == CHOOSE m \in S : \A o \in S : m <= o

\* The messages of the overflow panics of `+=` and `*=`.
AddOverflowMsg == "attempt to add with overflow"
MulOverflowMsg == "attempt to multiply with overflow"

\* A producer whose call panicked.
Panicked(msg) == [panic |-> msg]
IsPanicked(o) == "panic" \in DOMAIN o

\* The largest u128 is Modulus - 1.
Modulus == 2^CursorBits

\* self.current = n, n being the result of `+=` or `*=` on u128: the cursor
\* after the assignment, wrapped around when the build does not check.
Assign(s, n) == [s EXCEPT !.current = n % Modulus]

\* Whether that assignment panics.
OverflowPanics(n) == overflow_checks /\ n >= Modulus

PositiveIntsNext(s) ==
    LET c == s.current + 1
    IN  IF OverflowPanics(c) THEN [val |-> None, set |-> Panicked(AddOverflowMsg)]
        ELSE [val |-> Some(Assign(s, c).current), set |-> Assign(s, c)]

EvensNext(s) ==
    LET c == s.current + 2
    IN  IF OverflowPanics(c) THEN [val |-> None, set |-> Panicked(AddOverflowMsg)]
        ELSE [val |-> Some(Assign(s, c).current), set |-> Assign(s, c)]

OddsNext(s) ==
    LET result == Some(s.current)
        c == s.current + 2
    IN  IF OverflowPanics(c) THEN [val |-> None, set |-> Panicked(AddOverflowMsg)]
        ELSE [val |-> result, set |-> Assign(s, c)]

TwoPowersNext(s) ==
    LET result == Some(s.current)
        c == s.current * 2
    IN  IF OverflowPanics(c) THEN [val |-> None, set |-> Panicked(MulOverflowMsg)]
        ELSE [val |-> result, set |-> Assign(s, c)]

GenericNext(s) ==
    LET rest == {i \in s.items : i >= s.current}
    IN  IF rest = {} THEN [val |-> None, set |-> s]
        ELSE [val |-> Some(Min(rest)), set |-> [s EXCEPT !.current = Min(rest) + 1]]

\* A combinator is an InfiniteSet too and can be an operand: the operators of
\* InfiniteUnion and InfiniteIntersection are defined further down.
RECURSIVE CombinatorNext(_), CombinatorContains(_, _)

IsUnion(s) == "first_next" \in DOMAIN s
IsIntersection(s) == "first" \in DOMAIN s

\* Iterator::next through Box<dyn InfiniteSet>.
SetNext(s) ==
    CASE IsUnion(s) \/ IsIntersection(s) -> CombinatorNext(s)
      [] s.kind = "ints" -> PositiveIntsNext(s)
      [] s.kind = "evens" -> EvensNext(s)
      [] s.kind = "odds" -> OddsNext(s)
      [] s.kind = "twopowers" -> TwoPowersNext(s)
      [] s.kind = "seq" -> GenericNext(s)

PositiveIntsContains(s, val) == val > 0

EvensContains(s, val) == val > 0 /\ val % 2 = 0

OddsContains(s, val) == val > 0 /\ val % 2 = 1

\* (x as f64).log2().fract() = 0.0.  The conversion is exact below 2^53 and
\* every value of this model is far below that; there the logarithm has no
\* fractional part exactly when val is a power of two.
Log2FractIsZero(val) == \E k \in 0..val : 2^k = val

TwoPowersContains(s, val) == val > 0 /\ ~Log2FractIsZero(val)

GenericContains(s, val) == val \in s.items

\* InfiniteSet::contains through Box<dyn InfiniteSet>.
SetContains(s, val) ==
    CASE IsUnion(s) \/ IsIntersection(s) -> CombinatorContains(s, val)
      [] s.kind = "ints" -> PositiveIntsContains(s, val)
      [] s.kind = "evens" -> EvensContains(s, val)
      [] s.kind = "odds" -> OddsContains(s, val)
      [] s.kind = "twopowers" -> TwoPowersContains(s, val)
      [] s.kind = "seq" -> GenericContains(s, val)

-----------------------------------------------------------------------------
(* InfiniteUnion, infinite_set.rs *)

\* The messages of the expect() calls.
FirstUnionMsg == "first infinite set in union didn't have a next value"
SecondUnionMsg == "second infinite set in union didn't have a next value"
FirstIntersectionMsg == "first infinite set in intersection didn't have a next value"

\* A combinator that does not exist yet.
Unbuilt == [unbuilt |-> TRUE]
IsLive(o) == DOMAIN o \cap {"unbuilt", "panic"} = {}

\* .expect(msg) on the result r of a draw that yielded no value: the panic of
\* the draw itself when it overflowed, the panic of expect when it gave None.
Expect(r, msg) == IF IsPanicked(r.set) THEN r.set ELSE Panicked(msg)

\* One entry of a call's draw log: which operand was asked, and its answer.
Draw(which, r) == <<which, r.val>>

\* Each draw is written as the application of the code that follows it to
\* the result r of the draw.

\* from_sets, the loop that fills second_next: one turn, after the draw r.
RECURSIVE FromSetsSecondLoop(_, _, _)
FromSetsSecondTurn(first_next, draws, r) ==
    LET d == Append(draws, Draw("second", r))
    IN  IF r.val = None THEN [self |-> Expect(r, SecondUnionMsg), draws |-> d]
        ELSE IF r.val[1] # first_next
             THEN [self |-> [second_set |-> r.set, second_next |-> r.val[1]], draws |-> d]
             ELSE FromSetsSecondLoop(r.set, first_next, d)

FromSetsSecondLoop(second_set, first_next, draws) ==
    FromSetsSecondTurn(first_next, draws, SetNext(second_set))

\* from_sets, the loop that computes the first next_value: its three arms,
\* after the draw r.
RECURSIVE FromSetsMerge(_, _)
FromSetsLess(st, draws, r) ==
    LET d == Append(draws, Draw("first", r))
    IN  IF r.val = None THEN [self |-> Expect(r, FirstUnionMsg), draws |-> d]
        ELSE [self |-> [first_set |-> r.set, second_set |-> st.second_set,
                        first_next |-> r.val[1], second_next |-> st.second_next,
                        next_value |-> st.first_next],
              draws |-> d]

FromSetsEqual(st, draws, r) ==
    LET d == Append(draws, Draw("first", r))
    IN  IF r.val = None THEN [self |-> Expect(r, FirstUnionMsg), draws |-> d]
        ELSE FromSetsMerge([st EXCEPT !.first_set = r.set, !.first_next = r.val[1]], d)

FromSetsGreater(st, draws, r) ==
    LET d == Append(draws, Draw("second", r))
    IN  IF r.val = None THEN [self |-> Expect(r, SecondUnionMsg), draws |-> d]
        ELSE [self |-> [first_set |-> st.first_set, second_set |-> r.set,
                        first_next |-> st.first_next, second_next |-> r.val[1],
                        next_value |-> st.second_next],
              draws |-> d]

FromSetsMerge(st, draws) ==
    IF st.first_next < st.second_next
    THEN FromSetsLess(st, draws, SetNext(st.first_set))
    ELSE IF st.first_next = st.second_next
    THEN FromSetsEqual(st, draws, SetNext(st.first_set))
    ELSE FromSetsGreater(st, draws, SetNext(st.second_set))

\* from_sets after its two first loops: r1 is the first draw, r2 the result of
\* the second_next loop.
FromSetsRest(r1, r2) ==
    IF IsPanicked(r2.self) THEN r2
    ELSE FromSetsMerge([first_set |-> r1.set,
                        second_set |-> r2.self.second_set,
                        first_next |-> r1.val[1],
                        second_next |-> r2.self.second_next],
                       r2.draws)

\* from_sets after the draw r1 that fills first_next.
FromSetsFirst(second_set, r1) ==
    IF r1.val = None
    THEN [self |-> Expect(r1, FirstUnionMsg), draws |-> <<Draw("first", r1)>>]
    ELSE FromSetsRest(r1, FromSetsSecondLoop(second_set, r1.val[1], <<Draw("first", r1)>>))

\* InfiniteUnion::from_sets(first_set, second_set).
UnionFromSets(first_set, second_set) == FromSetsFirst(second_set, SetNext(first_set))

RECURSIVE UnionNextMerge(_, _)

\* InfiniteUnion::next, the three arms of the loop that refills next_value,
\* after the draw r.
NextLess(self, draws, r) ==
    LET d == Append(draws, Draw("first", r))
    IN  IF r.val = None THEN [self |-> Expect(r, FirstUnionMsg), draws |-> d]
        ELSE [self |-> [self EXCEPT !.first_set = r.set, !.first_next = r.val[1],
                                    !.next_value = self.first_next],
              draws |-> d]

NextEqual(self, draws, r) ==
    LET d == Append(draws, Draw("first", r))
    IN  IF r.val = None THEN [self |-> Expect(r, FirstUnionMsg), draws |-> d]
        ELSE UnionNextMerge([self EXCEPT !.first_set = r.set, !.first_next = r.val[1]], d)

NextGreater(self, draws, r) ==
    LET d == Append(draws, Draw("second", r))
    IN  IF r.val = None THEN [self |-> Expect(r, SecondUnionMsg), draws |-> d]
        ELSE [self |-> [self EXCEPT !.second_set = r.set, !.second_next = r.val[1],
                                    !.next_value = self.second_next],
              draws |-> d]

\* Faulty variant of the Ordering::Greater arm: it saves first_next instead of
\* second_next.
NextGreaterTakesFirst(self, draws, r) ==
    LET d == Append(draws, Draw("second", r))
    IN  IF r.val = None THEN [self |-> Expect(r, SecondUnionMsg), draws |-> d]
        ELSE [self |-> [self EXCEPT !.second_set = r.set, !.second_next = r.val[1],
                                    !.next_value = self.first_next],
              draws |-> d]

\* Faulty variant: Ordering::Equal is handled like Ordering::Less, so the shared
\* value is taken from the first operand without discarding a copy.
UnionNextMergeEqualAsLess(self, draws) ==
    IF self.first_next <= self.second_next
    THEN NextLess(self, draws, SetNext(self.first_set))
    ELSE NextGreater(self, draws, SetNext(self.second_set))

\* Faulty variant: the loop with the faulty Ordering::Greater arm.
UnionNextMergeGreaterTakesFirst(self, draws) ==
    IF self.first_next < self.second_next
    THEN NextLess(self, draws, SetNext(self.first_set))
    ELSE IF self.first_next = self.second_next
    THEN NextEqual(self, draws, SetNext(self.first_set))
    ELSE NextGreaterTakesFirst(self, draws, SetNext(self.second_set))

\* Faulty variant: the Ordering::Less arm advances the first operand and goes
\* on looking, as the Ordering::Equal arm does.
UnionNextMergeLessContinues(self, draws) ==
    IF self.first_next <= self.second_next
    THEN NextEqual(self, draws, SetNext(self.first_set))
    ELSE NextGreater(self, draws, SetNext(self.second_set))

\* InfiniteUnion::next, the loop that refills next_value.
UnionNextMerge(self, draws) ==
    IF self.first_next < self.second_next
    THEN NextLess(self, draws, SetNext(self.first_set))
    ELSE IF self.first_next = self.second_next
    THEN NextEqual(self, draws, SetNext(self.first_set))
    ELSE NextGreater(self, draws, SetNext(self.second_set))

\* What InfiniteUnion::next returns once the loop has ended with r: Some(tmp),
\* or nothing when the loop panicked.
UnionNextReturn(tmp, r) ==
    [self |-> r.self, draws |-> r.draws,
     ret |-> IF IsPanicked(r.self) THEN None ELSE Some(tmp)]

\* Faulty variant: no one-ahead buffering, the value just computed is returned.
UnionNextNoBuffer(self) ==
    UnionNextReturn(UnionNextMerge(self, <<>>).self.next_value, UnionNextMerge(self, <<>>))

\* InfiniteUnion::next: the value buffered by the previous call is returned
\* once next_value has been refilled.
UnionNext(self) == UnionNextReturn(self.next_value, UnionNextMerge(self, <<>>))

\* Faulty variant: contains looks for the value by drawing from the first operand.
UnionContainsDraws(self, val) ==
    [self |-> [self EXCEPT !.first_set = SetNext(self.first_set).set],
     ret |-> SetContains(self.first_set, val) \/ SetContains(self.second_set, val)]

\* InfiniteUnion::contains(&self, x): the answer and the union after the call.
UnionContains(self, val) ==
    [self |-> self,
     ret |-> SetContains(self.first_set, val) \/ SetContains(self.second_set, val)]

-----------------------------------------------------------------------------
(* InfiniteIntersection, infinite_set.rs *)

\* InfiniteIntersection::from_sets(first, second): nothing is drawn.
IntersectionFromSets(first, second) ==
    [self |-> [first |-> first, second |-> second], draws |-> <<>>]

\* One turn of the loop of InfiniteIntersection::next after the draw r, with
\* the answer found of the contains test (looked at only when r has a value):
\* done tells whether the loop was left (break x), ret is what next() then
\* returns.
IntersectionTurn(self, r, found) ==
    IF r.val = None
    THEN [self |-> Expect(r, FirstIntersectionMsg), draws |-> <<Draw("first", r)>>,
          done |-> FALSE, ret |-> None]
    ELSE [self |-> [self EXCEPT !.first = r.set], draws |-> <<Draw("first", r)>>,
          done |-> found, ret |-> IF found THEN Some(r.val[1]) ELSE None]

\* Faulty variant of the turn: an exhausted first operand makes next() return
\* None instead of panicking.
IntersectionTurnReturnsNone(self, r, found) ==
    IF r.val = None
    THEN [self |-> self, draws |-> <<Draw("first", r)>>, done |-> TRUE, ret |-> None]
    ELSE [self |-> [self EXCEPT !.first = r.set], draws |-> <<Draw("first", r)>>,
          done |-> found, ret |-> IF found THEN Some(r.val[1]) ELSE None]

\* self.second.contains(&x) for the value x of the draw r.
SecondContains(self, r) == r.val # None /\ SetContains(self.second, r.val[1])

\* Faulty variant: the value drawn from the first operand is tested against the
\* first operand's own contains.
FirstContains(self, r) == r.val # None /\ SetContains(self.first, r.val[1])

\* One turn of the loop, after the draw r.
IntersectionAfterDraw(self, r) == IntersectionTurn(self, r, SecondContains(self, r))

\* Faulty variant: the turn with the test against the first operand.
IntersectionLoopTurnTestsFirst(self) ==
    IntersectionTurn(self, SetNext(self.first), FirstContains(self, SetNext(self.first)))

\* Faulty variant: the loop turn that returns None on exhaustion.
IntersectionLoopTurnReturnsNone(self) ==
    IntersectionTurnReturnsNone(self, SetNext(self.first),
                                SecondContains(self, SetNext(self.first)))

\* Faulty variant: a turn that does not panic also draws from the second operand.
AdvanceSecond(t) ==
    IF IsPanicked(t.self) THEN t
    ELSE [t EXCEPT !.self.second = SetNext(t.self.second).set]

IntersectionLoopTurnAdvancesSecond(self) ==
    AdvanceSecond(IntersectionAfterDraw(self, SetNext(self.first)))

\* One turn of the loop of InfiniteIntersection::next.
IntersectionLoopTurn(self) == IntersectionAfterDraw(self, SetNext(self.first))

\* InfiniteIntersection::next as a whole: the loop is left by break x or by a
\* panic (it is not left when nothing matches, and then this has no value).
RECURSIVE IntersectionNext(_)
IntersectionLoop(r) ==
    IF r.done \/ IsPanicked(r.self) THEN r ELSE IntersectionNext(r.self)

IntersectionNext(self) == IntersectionLoop(IntersectionLoopTurn(self))

\* InfiniteIntersection::contains(&self, x): the answer and the intersection
\* after the call.
IntersectionContains(self, val) ==
    [self |-> self,
     ret |-> SetContains(self.first, val) /\ SetContains(self.second, val)]

\* next() and contains() of a combinator used as an operand: the Option it
\* yields (None where the call panics) with the combinator after the call.
AsDraw(r) == [val |-> r.ret, set |-> r.self]

CombinatorNext(s) == AsDraw(IF IsUnion(s) THEN UnionNext(s) ELSE IntersectionNext(s))

\* Faulty variant: a union used as an operand answers contains as an
\* intersection does, with the conjunction of its operands' answers.
CombinatorContainsConjoins(s, val) ==
    IF IsUnion(s) THEN SetContains(s.first_set, val) /\ SetContains(s.second_set, val)
    ELSE IntersectionContains(s, val).ret

CombinatorContains(s, val) ==
    IF IsUnion(s) THEN UnionContains(s, val).ret ELSE IntersectionContains(s, val).ret

\* contains(&self, x) of a producer: the answer and the producer after the call.
ProducerContains(self, val) == [self |-> self, ret |-> SetContains(self, val)]

-----------------------------------------------------------------------------
(* The program: two operands are made, then combined or used alone.  It is   *)
(* single-threaded: while x.next() is looping, nothing else is called.      *)

Call(obj, op, arg, draws, ret) ==
    [obj |-> obj, op |-> op, arg |-> arg, draws |-> draws, ret |-> ret]

\* The state after the operands are constructed, for a choice of build
\* profiles and of operands.
InitOf(profiles, firsts, seconds) ==
    /\ overflow_checks \in profiles
    /\ A \in firsts
    /\ B \in seconds
    /\ u = Unbuilt /\ uOut = <<>>
    /\ v = Unbuilt /\ vOut = <<>>
    /\ x = Unbuilt /\ xOut = <<>> /\ xpc = "idle" /\ xSteps = 0
    /\ p = A /\ pOut = <<>>
    /\ last = Call("none", "none", 0, <<>>, None)

\* cargo's default (dev) profile.  The profiles differ only once a cursor
\* reaches 2^CursorBits, which takes more calls than MaxCalls and MaxSteps
\* allow; SpecAdvance below runs the producers that far under both profiles.
Init == InitOf({TRUE}, Operands, Operands)

\* let u = A.union(B)
UnionAB ==
    /\ xpc = "idle"
    /\ u = Unbuilt
    /\ LET r == UnionFromSets(A, B)
       IN  /\ u' = r.self
           /\ last' = Call("u", "union", 0, r.draws, None)
    /\ UNCHANGED <<overflow_checks, A, B, uOut, v, vOut, x, xOut, xpc, xSteps, p, pOut>>

\* u.next()
UnionABNext ==
    /\ xpc = "idle"
    /\ IsLive(u)
    /\ Len(uOut) < MaxCalls
    /\ LET r == UnionNext(u)
       IN  /\ u' = r.self
           /\ uOut' = uOut \o r.ret
           /\ last' = Call("u", "next", 0, r.draws, r.ret)
    /\ UNCHANGED <<overflow_checks, A, B, v, vOut, x, xOut, xpc, xSteps, p, pOut>>

\* u.contains(&a)
UnionABContains ==
    /\ xpc = "idle"
    /\ IsLive(u)
    /\ \E a \in 0..MaxArg :
         LET r == UnionContains(u, a)
         IN  /\ u' = r.self
             /\ last' = Call("u", "contains", a, <<>>, <<r.ret>>)
    /\ UNCHANGED <<overflow_checks, A, B, uOut, v, vOut, x, xOut, xpc, xSteps, p, pOut>>

\* let v = B.union(A)
UnionBA ==
    /\ xpc = "idle"
    /\ v = Unbuilt
    /\ LET r == UnionFromSets(B, A)
       IN  /\ v' = r.self
           /\ last' = Call("v", "union", 0, r.draws, None)
    /\ UNCHANGED <<overflow_checks, A, B, u, uOut, vOut, x, xOut, xpc, xSteps, p, pOut>>

\* v.next()
UnionBANext ==
    /\ xpc = "idle"
    /\ IsLive(v)
    /\ Len(vOut) < MaxCalls
    /\ LET r == UnionNext(v)
       IN  /\ v' = r.self
           /\ vOut' = vOut \o r.ret
           /\ last' = Call("v", "next", 0, r.draws, r.ret)
    /\ UNCHANGED <<overflow_checks, A, B, u, uOut, x, xOut, xpc, xSteps, p, pOut>>

\* let x = A.intersect(B)
IntersectAB ==
    /\ x = Unbuilt
    /\ LET r == IntersectionFromSets(A, B)
       IN  /\ x' = r.self
           /\ last' = Call("x", "intersect", 0, r.draws, None)
    /\ UNCHANGED <<overflow_checks, A, B, u, uOut, v, vOut, xOut, xpc, xSteps, p, pOut>>

\* x.next() is entered
IntersectNextCall ==
    /\ IsLive(x)
    /\ xpc = "idle"
    /\ xSteps < MaxSteps
    /\ xpc' = "loop"
    /\ last' = Call("x", "next", 0, <<>>, None)
    /\ UNCHANGED <<overflow_checks, A, B, u, uOut, v, vOut, x, xOut, xSteps, p, pOut>>

\* one turn of the loop of x.next(): it returns, panics or goes round again
IntersectNextLoop ==
    /\ IsLive(x)
    /\ xpc = "loop"
    /\ xSteps < MaxSteps
    /\ LET r == IntersectionLoopTurn(x)
       IN  /\ x' = r.self
           /\ xOut' = xOut \o r.ret
           /\ xpc' = IF r.done \/ IsPanicked(r.self) THEN "idle" ELSE "loop"
           /\ last' = Call("x", "next", 0, last.draws \o r.draws, r.ret)
    /\ xSteps' = xSteps + 1
    /\ UNCHANGED <<overflow_checks, A, B, u, uOut, v, vOut, p, pOut>>

\* x.contains(&a)
IntersectContains ==
    /\ IsLive(x)
    /\ xpc = "idle"
    /\ \E a \in 0..MaxArg :
         LET r == IntersectionContains(x, a)
         IN  /\ x' = r.self
             /\ last' = Call("x", "contains", a, <<>>, <<r.ret>>)
    /\ UNCHANGED <<overflow_checks, A, B, u, uOut, v, vOut, xOut, xpc, xSteps, p, pOut>>

\* p.next(), p being operand A used on its own
ProducerNextUpTo(calls) ==
    /\ xpc = "idle"
    /\ IsLive(p)
    /\ Len(pOut) < calls
    /\ LET r == SetNext(p)
       IN  /\ p' = r.set
           /\ pOut' = pOut \o r.val
           /\ last' = Call("p", "next", 0, <<>>, r.val)
    /\ UNCHANGED <<overflow_checks, A, B, u, uOut, v, vOut, x, xOut, xpc, xSteps>>

ProducerNext == ProducerNextUpTo(MaxCalls)

\* p.next(), on a run long enough for the cursor to overflow
ProducerAdvance == ProducerNextUpTo(MaxAdvances)

\* p.contains(&a)
ProducerContainsCall ==
    /\ xpc = "idle"
    /\ IsLive(p)
    /\ \E a \in 0..MaxArg :
         LET r == ProducerContains(p, a)
         IN  /\ p' = r.self
             /\ last' = Call("p", "contains", a, <<>>, <<r.ret>>)
    /\ UNCHANGED <<overflow_checks, A, B, u, uOut, v, vOut, x, xOut, xpc, xSteps, pOut>>

NextUnion == UnionAB \/ UnionABNext \/ UnionABContains
NextCommute == UnionAB \/ UnionABNext \/ UnionBA \/ UnionBANext
NextIntersect == IntersectAB \/ IntersectNextCall \/ IntersectNextLoop \/ IntersectContains
NextProducer == ProducerNext \/ ProducerContainsCall

Next == NextUnion \/ UnionBA \/ UnionBANext \/ NextIntersect \/ NextProducer

NextPanic == UnionAB \/ UnionABNext \/ IntersectAB \/ IntersectNextCall \/ IntersectNextLoop
NextContains == NextUnion \/ NextIntersect \/ NextProducer

\* union and intersect take their operands by value (self, other): of the
\* objects that can be made from A and B, a program has one.
OwnUnionAB == v = Unbuilt /\ x = Unbuilt /\ UnionAB
OwnUnionBA == u = Unbuilt /\ x = Unbuilt /\ UnionBA
OwnIntersectAB == u = Unbuilt /\ v = Unbuilt /\ IntersectAB

NextNested ==
    \/ OwnUnionAB \/ UnionABNext
    \/ OwnUnionBA \/ UnionBANext
    \/ OwnIntersectAB \/ IntersectNextCall \/ IntersectNextLoop

\* Combinators used as operands.  They are built from the producers of
\* NestedBase; an intersection is taken only where next() comes back: its
\* first operand runs out (and next() panics) or its operands are sample
\* producers that share infinitely many values.
NestedBase ==
    {InfinitePositiveInts, InfiniteEvens, InfiniteOdds}
        \cup {g \in GenericSets : Cardinality(g.items) > MaxVal}

SharesForever(a, b) ==
    /\ a \in SampleSets /\ b \in SampleSets
    /\ (a.kind = "ints" \/ b.kind = "ints" \/ a.kind = b.kind)

NestedUnions ==
    {c \in {UnionFromSets(a, b).self : a \in NestedBase, b \in NestedBase} : IsLive(c)}

NestedIntersections ==
    {IntersectionFromSets(ab[1], ab[2]).self :
        ab \in {cd \in NestedBase \X NestedBase :
                   cd[1] \in GenericSets \/ SharesForever(cd[1], cd[2])}}

NestedSets == NestedUnions \cup NestedIntersections

\* The operands are producers or combinators.
InitNested == InitOf({TRUE}, Operands \cup NestedSets, Operands \cup NestedSets)

\* Both operands are sample producers.
InitSamples == InitOf({TRUE}, SampleSets, SampleSets)
InitAdvance == InitOf(BOOLEAN, SampleSets, SampleSets)

\* One union, A.union(B), with contains() calls between its next() calls.
SpecUnion == Init /\ [][NextUnion]_vars
\* Both unions, A.union(B) and B.union(A).
SpecCommute == Init /\ [][NextCommute]_vars
\* The intersection A.intersect(B).
SpecIntersect == Init /\ [][NextIntersect]_vars
\* Operand A used on its own.
SpecProducer == Init /\ [][NextProducer]_vars
\* A.union(B) and A.intersect(B), without contains() calls.
SpecPanic == Init /\ [][NextPanic]_vars
\* Sample producers, alone and combined, with contains() calls between the
\* next() calls.
SpecContains == InitSamples /\ [][NextContains]_vars
\* A sample producer advanced until its cursor overflows.
SpecAdvance == InitAdvance /\ [][ProducerAdvance]_vars
\* One combinator whose operands may be combinators themselves.
SpecNested == InitNested /\ [][NextNested]_vars
\* Everything together, on the sample producers.
Spec == InitSamples /\ [][Next]_vars

-----------------------------------------------------------------------------
(* Helpers of the properties *)

Range(seq) == {seq[i] : i \in DOMAIN seq}

Last(seq) == seq[Len(seq)]

StrictlyIncreasing(seq) == \A i \in 1..(Len(seq) - 1) : seq[i] < seq[i + 1]

\* The values a producer in state s yields from there on that are <= bound,
\* found by drawing them.
RECURSIVE ValuesUpTo(_, _)
ValuesUpTo(s, bound) ==
    LET r == SetNext(s)
    IN  IF r.val = None \/ r.val[1] > bound THEN {}
        ELSE {r.val[1]} \cup ValuesUpTo(r.set, bound)

\* The first value a fresh producer yields, as an Option.
FirstOf(s) == SetNext(s).val

-----------------------------------------------------------------------------
(* C1 *)

\* C1: the values returned by successive next() calls on union(A,B) are
\* strictly increasing (so a value of both A and B is returned once), for
\* strictly increasing operands, as long as neither is exhausted.
C1_UnionStrictlyIncreasing == StrictlyIncreasing(uOut)

\* A union of two different generic operands has returned a value they share,
\* after at least three calls.
C1_Witness ==
    /\ IsLive(u)
    /\ A.kind = "seq" /\ B.kind = "seq" /\ A # B
    /\ Len(uOut) >= 3
    /\ \E val \in Range(uOut) : val \in A.items \cap B.items

\* C2: after any number of next() calls the values returned so far are
\* exactly the values of A or of B that are <= the last returned value.
C2_UnionLosesNothing ==
    (~IsPanicked(u) /\ uOut # <<>>) =>
        Range(uOut) = ValuesUpTo(A, Last(uOut)) \cup ValuesUpTo(B, Last(uOut))

\* Construction discarded B's first value because it equals A's first value,
\* and that value and two more have been returned.
C2_Witness ==
    /\ IsLive(u)
    /\ FirstOf(A) # None /\ FirstOf(A) = FirstOf(B)
    /\ A # B
    /\ Len(uOut) >= 3
    /\ uOut[1] = FirstOf(B)[1]

\* C3 as claimed: every value returned by union(A,B), A and B sample
\* producers, satisfies A.contains(x) || B.contains(x).
C3_UnionEmitsMembers ==
    (A \in SampleSets /\ B \in SampleSets /\ IsLive(u)) =>
        \A val \in Range(uOut) :
            SetContains(u.first_set, val) \/ SetContains(u.second_set, val)

\* C4 as claimed: every value returned by intersect(A,B), A and B sample
\* producers, satisfies A.contains(x) and B.contains(x).
C4_IntersectionEmitsMembers ==
    (A \in SampleSets /\ B \in SampleSets /\ IsLive(x)) =>
        \A val \in Range(xOut) :
            SetContains(x.first, val) /\ SetContains(x.second, val)

\* C5: a fresh union(A,B) and a fresh union(B,A) return the same value at
\* every position both have reached.
C5_UnionCommutes ==
    \A i \in 1..Len(uOut) : i <= Len(vOut) => uOut[i] = vOut[i]

\* Two different operands with the same first value (the case construction
\* treats asymmetrically), each union called at least three times.
C5_Witness ==
    /\ IsLive(u) /\ IsLive(v)
    /\ A # B
    /\ FirstOf(A) # None /\ FirstOf(A) = FirstOf(B)
    /\ Len(uOut) >= 3 /\ Len(vOut) >= 3

\* C6 as claimed: every value a sample producer has returned satisfies its
\* contains, asked of the fresh producer and at the current cursor position.
C6_ProducerEmitsMembers ==
    (A \in SampleSets /\ IsLive(p)) =>
        \A val \in Range(pOut) : SetContains(A, val) /\ SetContains(p, val)

-----------------------------------------------------------------------------
(* C7 .. C10 *)

\* Whether one of the next n values the first operand of an intersection
\* yields satisfies the second operand's contains.
RECURSIVE MatchAhead(_, _)
MatchAhead(self, n) ==
    IF n = 0 THEN FALSE
    ELSE LET r == SetNext(self.first)
         IN  IF r.val = None THEN FALSE
             ELSE \/ SetContains(self.second, r.val[1])
                  \/ MatchAhead([self EXCEPT !.first = r.set], n - 1)

C8_Message(obj, which) ==
    CASE obj = "u" /\ which = "first" -> FirstUnionMsg
      [] obj = "u" /\ which = "second" -> SecondUnionMsg
      [] obj = "x" /\ which = "first" -> FirstIntersectionMsg
      [] OTHER -> "none"

\* The last call, made on combinator o: a draw that yielded None is the
\* call's last draw and panicked with the message of that operand; a panic
\* comes from such a draw only; a call that returned returned a value.
C8_LastCall(o) ==
    LET d == last.draws
    IN  /\ \A i \in 1..Len(d) :
              d[i][2] = None =>
                  /\ i = Len(d)
                  /\ IsPanicked(o)
                  /\ o.panic = C8_Message(last.obj, d[i][1])
                  /\ last.ret = None
        /\ IsPanicked(o) => (Len(d) > 0 /\ d[Len(d)][2] = None)
        /\ (last.op = "next" /\ IsLive(o) /\ (last.obj = "x" => xpc = "idle")) =>
              last.ret # None

C8_State ==
    /\ last.obj = "u" => C8_LastCall(u)
    /\ last.obj = "x" => C8_LastCall(x)

\* C8: a draw that signals exhaustion, in Union construction, Union next() or
\* Intersection next(), panics with the message naming that operand and the
\* combinator; no call returns None, and nothing is returned after a panic.
C8_ExhaustionPanics ==
    [][/\ C8_State'
       /\ IsPanicked(u) => UNCHANGED <<u, uOut>>
       /\ IsPanicked(x) => UNCHANGED <<x, xOut>>]_vars

\* The union panicked on its second operand inside next(), after returning
\* two values, and the intersection panicked after returning one.
C8_Witness ==
    /\ IsPanicked(u) /\ u.panic = SecondUnionMsg /\ Len(uOut) >= 2
    /\ IsPanicked(x) /\ x.panic = FirstIntersectionMsg /\ Len(xOut) >= 1

\* C9 as claimed: between calls the two pending values of a union are never
\* equal.
C9_PendingNeverEqual == IsLive(u) => u.first_next # u.second_next

\* C9, amended: the pending values can be equal between calls; then the
\* shared value is ahead of next_value and of everything returned, and the
\* next next() call draws once from each operand, buffers the shared value as
\* next_value and leaves both pending values greater than it.
C9_EqualPendingResolved ==
    [][/\ (IsLive(u') /\ u'.first_next = u'.second_next) =>
              /\ u'.first_next > u'.next_value
              /\ \A val \in Range(uOut') : val < u'.first_next
       /\ (IsLive(u) /\ u.first_next = u.second_next /\ last'.op = "next" /\ IsLive(u')) =>
              /\ u'.next_value = u.second_next
              /\ u'.first_next > u'.next_value
              /\ u'.second_next > u'.next_value
              /\ Len(last'.draws) = 2
              /\ last'.draws[1][1] = "first" /\ last'.draws[2][1] = "second"]_vars

\* A next() call on evens.union(positive ints) that found the pending values
\* equal (it drew from both operands), and left them equal again.
C9_Witness ==
    /\ A = InfiniteEvens /\ B = InfinitePositiveInts
    /\ IsLive(u)
    /\ last.op = "next" /\ Len(last.draws) = 2
    /\ Len(uOut) >= 2

\* What n next() calls return when nothing else is called in between.
RECURSIVE ProducerRun(_, _)
ProducerRun(self, n) ==
    IF n = 0 \/ IsPanicked(self) THEN <<>>
    ELSE LET r == SetNext(self) IN r.val \o ProducerRun(r.set, n - 1)

RECURSIVE UnionRun(_, _)
UnionRun(self, n) ==
    IF n = 0 \/ IsPanicked(self) THEN <<>>
    ELSE LET r == UnionNext(self) IN r.ret \o UnionRun(r.self, n - 1)

RECURSIVE IntersectionRun(_, _)
IntersectionRun(self, n) ==
    IF n = 0 \/ IsPanicked(self) THEN <<>>
    ELSE LET r == IntersectionNext(self) IN r.ret \o IntersectionRun(r.self, n - 1)

\* Of a state given by its parts: the outputs so far are those of a run
\* without contains() calls, and contains answers as it does on the freshly
\* built object.
C10_Holds(pp, ppOut, uu, uuOut, xx, xxOut, ll) ==
    /\ ppOut = ProducerRun(A, Len(ppOut))
    /\ IsLive(pp) =>
          \A a \in 0..MaxArg : ProducerContains(pp, a).ret = ProducerContains(A, a).ret
    /\ IsLive(uu) =>
          /\ uuOut = UnionRun(UnionFromSets(A, B).self, Len(uuOut))
          /\ \A a \in 0..MaxArg :
                UnionContains(uu, a).ret = UnionContains(UnionFromSets(A, B).self, a).ret
    /\ IsLive(xx) =>
          /\ xxOut = IntersectionRun(IntersectionFromSets(A, B).self, Len(xxOut))
          /\ \A a \in 0..MaxArg :
                IntersectionContains(xx, a).ret
                    = IntersectionContains(IntersectionFromSets(A, B).self, a).ret
    /\ ll.op = "contains" =>
          ll.ret = CASE ll.obj = "p" -> <<ProducerContains(A, ll.arg).ret>>
                     [] ll.obj = "u" -> <<UnionContains(UnionFromSets(A, B).self, ll.arg).ret>>
                     [] ll.obj = "x" ->
                          <<IntersectionContains(IntersectionFromSets(A, B).self, ll.arg).ret>>

\* C10: a contains() call on a sample producer, a Union or an Intersection
\* leaves the object as it was (cursors, pending slots, next_value), the
\* values next() returns are those of a run without contains() calls, and
\* contains gives the same answer at every cursor position.
C10_ContainsChangesNothing ==
    [][/\ last'.op = "contains" => UNCHANGED <<u, uOut, x, xOut, xpc, xSteps, p, pOut>>
       /\ C10_Holds(p', pOut', u', uOut', x', xOut', last')]_vars

\* contains() was just called on a union that had returned two values, and
\* the producer and the intersection have been advanced too.
C10_Witness ==
    /\ last.op = "contains" /\ last.obj = "u"
    /\ IsLive(u) /\ Len(uOut) >= 2
    /\ IsLive(x) /\ Len(xOut) >= 1
    /\ Len(pOut) >= 1

-----------------------------------------------------------------------------
(* C11 .. C17 *)

\* The k-th value of each sample producer, as documented.
Documented(kind, k) ==
    CASE kind = "ints" -> k
      [] kind = "evens" -> 2 * k
      [] kind = "odds" -> 2 * k - 1
      [] kind = "twopowers" -> 2^(k - 1)

\* C11 as claimed: for every number of advances, the k-th next() call of a
\* sample producer returns its documented k-th value, each value greater than
\* the one before, and no call fails.
C11_ProducersEnumerate ==
    A \in SampleSets =>
        /\ ~IsPanicked(p)
        /\ \A k \in 1..Len(pOut) : pOut[k] = Documented(A.kind, k)
        /\ StrictlyIncreasing(pOut)


\* The first values of operand s, drawn from its present state, are strictly
\* increasing and s.contains holds for each of them.
WellBehaved(s) ==
    LET out == ProducerRun(s, MaxCalls + MaxSteps)
    IN  /\ StrictlyIncreasing(out)
        /\ \A i \in 1..Len(out) : SetContains(s, out[i])

\* Every producer that s is composed of is well behaved.
RECURSIVE LeavesBehave(_)
LeavesBehave(s) ==
    IF IsUnion(s) THEN LeavesBehave(s.first_set) /\ LeavesBehave(s.second_set)
    ELSE IF IsIntersection(s) THEN LeavesBehave(s.first) /\ LeavesBehave(s.second)
    ELSE WellBehaved(s)

\* C12: a union or intersection whose operands are producers or combinators
\* made of well-behaved producers returns strictly increasing values, each of
\* which satisfies the combinator's own contains.
C12_ClosedUnderComposition ==
    (LeavesBehave(A) /\ LeavesBehave(B)) =>
        /\ StrictlyIncreasing(uOut)
        /\ IsLive(u) => \A i \in 1..Len(uOut) : UnionContains(u, uOut[i]).ret
        /\ StrictlyIncreasing(vOut)
        /\ IsLive(v) => \A i \in 1..Len(vOut) : UnionContains(v, vOut[i]).ret
        /\ StrictlyIncreasing(xOut)
        /\ IsLive(x) => \A i \in 1..Len(xOut) : IntersectionContains(x, xOut[i]).ret

\* union(intersect(.., ..), union(.., ..)) has returned MaxCalls values.
C12_Witness ==
    /\ IsIntersection(A) /\ IsUnion(B)
    /\ LeavesBehave(A) /\ LeavesBehave(B)
    /\ IsLive(u)
    /\ Len(uOut) = MaxCalls


\* The values among seq that the second operand s contains, in seq's order.
ContainedIn(s, seq) ==
    LET Test(val) == SetContains(s, val)
    IN  SelectSeq(seq, Test)

\* C13: at every point of its life, inside next() too, the values
\* intersect(A,B) has returned are exactly those among the values drawn so far
\* from A for which B.contains holds, in A's order, each once; so a call
\* returns the first such value and returns as soon as it is drawn.
C13_IntersectionIsFilteredFirst ==
    x # Unbuilt =>
        /\ xOut = ContainedIn(B, ProducerRun(A, xSteps))
        /\ (last.obj = "x" /\ last.op = "next" /\ last.ret # None) =>
               /\ xpc = "idle"
               /\ last.ret = <<Last(ProducerRun(A, xSteps))>>

\* Two values were returned and at least two drawn values were passed over.
C13_Witness ==
    /\ IsLive(x)
    /\ xpc = "idle"
    /\ Len(xOut) >= 2
    /\ xSteps >= Len(xOut) + 2

\* C14: in every state of a union after construction and between next()
\* calls, first_next and second_next are each greater than next_value and
\* than every value already returned.
C14_PendingAhead ==
    IsLive(u) =>
        /\ u.first_next > u.next_value
        /\ u.second_next > u.next_value
        /\ \A i \in 1..Len(uOut) : uOut[i] < u.first_next /\ uOut[i] < u.second_next

\* After a next() call that returned a value, with the second operand's
\* pending value the smaller one.
C14_Witness ==
    /\ IsLive(u)
    /\ last.obj = "u" /\ last.op = "next" /\ last.ret # None
    /\ Len(uOut) >= 2
    /\ u.second_next < u.first_next

\* How many of the draws of a call were made from operand which.
DrawsFrom(which, draws) == Cardinality({i \in 1..Len(draws) : draws[i][1] = which})

\* C15: a next() call on a union draws at most once from each operand, and
\* from both only when the pending values were equal; construction makes at
\* most four draws; a union holds three buffered values, no more.
C15_UnionDrawsLittle ==
    [][/\ (u = Unbuilt /\ u' # Unbuilt) => Len(last'.draws) <= 4
       /\ (IsLive(u) /\ u' # u) =>
              /\ last'.op = "next"
              /\ DrawsFrom("first", last'.draws) <= 1
              /\ DrawsFrom("second", last'.draws) <= 1
              /\ Len(last'.draws) = 2 => u.first_next = u.second_next
       /\ IsLive(u') =>
              /\ DOMAIN u' = {"first_set", "second_set", "first_next", "second_next",
                              "next_value"}
              /\ {u'.first_next, u'.second_next, u'.next_value} \subseteq Nat]_vars

\* The operands start with the same value, so that construction discarded one
\* and drew four times; the first next() call then found the pending values
\* equal and drew from both operands.
C15_Witness ==
    /\ FirstOf(A) # None /\ FirstOf(A) = FirstOf(B)
    /\ IsLive(u)
    /\ Len(uOut) = 1
    /\ last.obj = "u" /\ last.op = "next"
    /\ Len(last.draws) = 2

ShareInfinitelyMany(a, b) ==
    /\ {a.kind, b.kind} # {"evens", "odds"}
    /\ {a.kind, b.kind} # {"odds", "twopowers"}

\* C17 as claimed: for sample producers A and B whose sets share infinitely
\* many values, intersect(A,B) and a fresh intersect(B,A) return the same
\* value at every position.
C17_IntersectionCommutes ==
    (A \in SampleSets /\ B \in SampleSets /\ ShareInfinitelyMany(A, B)) =>
        xOut = IntersectionRun(IntersectionFromSets(B, A).self, Len(xOut))
====
